---- MODULE Spec2Model ----
(***************************************************************************)
(* concept_formation/cluster.py: flat clusterings cut from a concept tree. *)
(*                                                                         *)
(* cluster_iter is a generator, cluster and k_cluster consume it, and      *)
(* depth_labels walks the ancestor chains.  The concept tree itself        *)
(* (ifit, categorize, split, cu_for_split, category_utility) lives in      *)
(* cobweb.py, outside the files at hand; it is modelled from its contract. *)
(***************************************************************************)
EXTENDS Integers, Sequences, FiniteSets, TLC

VARIABLES
    heap,           \* the tree objects that exist, by reference (1 = the caller's)
    tree0,          \* the caller's tree as it was when the operation was called
    op,             \* the operation called: cluster_iter, cluster, k_cluster, depth_labels
    pc,             \* position in the operation
    tree,           \* the local name `tree`: a reference into heap
    instances,      \* the instance list
    minsplit, maxsplit, k, mod,
    temp_clusters,  \* the node recorded for each instance (temp_labels in depth_labels)
    range_next,     \* next value of range(1, maxsplit+1)
    nth_split,      \* the loop variable
    split_cus,      \* the sorted (gain, i, c) of the step in progress
    yielded,        \* what the generator has yielded so far: <<[n, labels]>>
    clustering,     \* k_cluster's candidate result
    result,         \* the value returned, once the operation has returned
    error,          \* the exception raised, or "none"
    finish,         \* how the generator stopped
    trace           \* history: deep copies, insertions and splits made, the last split

vars == <<heap, tree0, op, pc, tree, instances, minsplit, maxsplit, k, mod,
          temp_clusters, range_next, nth_split, split_cus, yielded, clustering,
          result, error, finish, trace>>

(***************************************************************************)
(* Bounds of the model.                                                    *)
(***************************************************************************)
MaxInst == 3        \* instance lists of length 0..MaxInst
MaxSplitArg == 3    \* minsplit and maxsplit are drawn from 0..MaxSplitArg
MaxK == 3           \* k is drawn from 1..MaxK
MaxGain == 1        \* cu_for_split(c) - category_utility() is drawn from 0..MaxGain

DefaultMaxSplit == 100000   \* cluster_iter's default maxsplit, used by k_cluster

None == 0           \* Python's None, for parent links and unset values
callerRef == 1      \* the reference the caller passes in

(***************************************************************************)
(* Small helpers.                                                          *)
(***************************************************************************)
Range(s) == {s[i] : i \in 1..Len(s)}

Max(a, b) == IF a >= b THEN a ELSE b

Remove(s, x) == SelectSeq(s, LAMBDA y : y # x)

\* list.reverse()
Reverse(s) == [i \in 1..Len(s) |-> s[Len(s) + 1 - i]]

\* len(set(c))
distinct(c) == Cardinality(Range(c))

(***************************************************************************)
(* The concept tree: nodes are 1..Len(t.parent); node fields are parent,   *)
(* children, concept_id and count (the statistics).                        *)
(***************************************************************************)
RECURSIVE AncSelf(_, _)
AncSelf(t, c) ==
    IF t.parent[c] = None THEN {c} ELSE {c} \cup AncSelf(t, t.parent[c])

Nodes(t) == 1..Len(t.parent)

\* nodes reachable from the root through children
Attached(t) ==
    {c \in Nodes(t) :
        /\ t.root \in AncSelf(t, c)
        /\ \A a \in AncSelf(t, c) :
              a # t.root => a \in Range(t.children[t.parent[a]])}

Leaves(t) == {c \in Attached(t) : t.children[c] = <<>>}

Internal(t) == {c \in Attached(t) : t.children[c] # <<>>}

\* a tree from its vector of parent links, children in node order
MkTree(pv) ==
    LET n == Len(pv)
        kids(i) == SelectSeq([j \in 1..n |-> j], LAMBDA j : pv[j] = i)
        t0 == [root |-> 1, parent |-> pv,
               children |-> [i \in 1..n |-> kids(i)],
               concept_id |-> [i \in 1..n |-> ToString(i)],
               count |-> [i \in 1..n |-> 0]]
        leaves == {c \in 1..n : kids(c) = <<>>}
    IN [t0 EXCEPT !.count =
           [i \in 1..n |-> Cardinality({l \in leaves : i \in AncSelf(t0, l)})]]

\* the trees a caller may pass in
TreeShapes ==
    { <<0>>,                        \* a lone root
      <<0, 1, 1>>,                  \* a root over two leaves
      <<0, 1, 1, 2, 2>>,            \* one splittable child
      <<0, 1, 1, 2, 2, 3, 3>>,      \* two splittable children
      <<0, 1, 1, 2, 2, 4, 4>> }     \* a splittable child under a splittable child

\* ifit(instance): the instance settles into an existing leaf (choice.new =
\* FALSE) or becomes a new leaf under choice.node (choice.new = TRUE); the
\* counts on the path are updated
ifit(t, choice) ==
    LET path == AncSelf(t, choice.node)
        bumped == [i \in Nodes(t) |-> IF i \in path THEN t.count[i] + 1 ELSE t.count[i]]
        new == Len(t.parent) + 1
    IN IF ~choice.new
       THEN [tree |-> [t EXCEPT !.count = bumped], leaf |-> choice.node]
       ELSE [tree |-> [root |-> t.root,
                       parent |-> Append(t.parent, choice.node),
                       children |-> Append([t.children EXCEPT ![choice.node] = Append(@, new)], <<>>),
                       concept_id |-> Append(t.concept_id, ToString(new)),
                       count |-> Append(bumped, 1)],
             leaf |-> new]

\* categorize(instance): the best-fit leaf, the tree unchanged
categorize(t, choice) == [tree |-> t, leaf |-> choice.node]

\* where an instance may settle: any leaf, or a new leaf under a root that
\* has children
IfitChoices(t) ==
    {[new |-> FALSE, node |-> l] : l \in Leaves(t)}
        \cup {[new |-> TRUE, node |-> p] : p \in Internal(t) \cap {t.root}}

CategorizeChoices(t) == {[new |-> FALSE, node |-> l] : l \in Leaves(t)}

\* root.split(best): best leaves the root's children, its children are
\* appended to them and now have the root as parent
split(t, best) ==
    LET r == t.root
    IN [t EXCEPT
          !.children[r] = Remove(@, best) \o t.children[best],
          !.parent = [c \in Nodes(t) |->
                         IF c \in Range(t.children[best]) THEN r ELSE t.parent[c]]]

(***************************************************************************)
(* cluster.py                                                              *)
(***************************************************************************)

\* "Concept" + c.concept_id
Label(t, c) == "Concept" \o t.concept_id[c]

\* a copy that is the same object (tree = tree)
deepcopy_alias(h, r) == [heap |-> h, ref |-> r]

\* copy.deepcopy(tree): a new object with the same value
deepcopy(h, r) == [heap |-> Append(h, h[r]), ref |-> Len(h) + 1]

\* the argument checks of cluster_iter: the error raised, or "none"
CheckSplitArgs(ms, mx) ==
    IF ms < 1 THEN "ValueError"
    ELSE IF ms > mx THEN "ValueError"
    ELSE "none"

\* the argument check of k_cluster
CheckK(kk) == IF kk < 2 THEN "ValueError" ELSE "none"

\* the insertion of one instance: ifit if mod, else categorize
Insert(t, m, choice) == IF m THEN ifit(t, choice) ELSE categorize(t, choice)

InsertChoices(t, m) == IF m THEN IfitChoices(t) ELSE CategorizeChoices(t)

\* while (c.parent and c.parent.parent): c = c.parent
RECURSIVE Walk(_, _)
Walk(t, c) ==
    IF t.parent[c] # None /\ t.parent[t.parent[c]] # None
    THEN Walk(t, t.parent[c])
    ELSE c

\* the walk with its second test negated (c.parent and not c.parent.parent)
WalkNegated(t, c) ==
    IF t.parent[c] # None /\ t.parent[t.parent[c]] = None THEN t.parent[c] ELSE c

ClustersNegated(t, temp) == [i \in 1..Len(temp) |-> Label(t, WalkNegated(t, temp[i]))]

\* the walk as an if in place of the while
WalkOnce(t, c) ==
    IF t.parent[c] # None /\ t.parent[t.parent[c]] # None THEN t.parent[c] ELSE c

ClustersOnce(t, temp) == [i \in 1..Len(temp) |-> Label(t, WalkOnce(t, temp[i]))]

\* the clustering yielded: one label per recorded node, in input order
Clusters(t, temp) == [i \in 1..Len(temp) |-> Label(t, Walk(t, temp[i]))]

\* tuple comparison as sorted() makes it; the index decides before the node
TupleLess(a, b) == a[1] < b[1] \/ (a[1] = b[1] /\ a[2] < b[2])

RECURSIVE InsertSorted(_, _)
InsertSorted(s, x) ==
    IF s = <<>> THEN <<x>>
    ELSE IF TupleLess(x, Head(s)) THEN <<x>> \o s
    ELSE <<Head(s)>> \o InsertSorted(Tail(s), x)

RECURSIVE sorted(_)
sorted(s) == IF s = <<>> THEN <<>> ELSE InsertSorted(sorted(Tail(s)), Head(s))

\* the root's children that have children
Splittable(t) == {c \in Range(t.children[t.root]) : t.children[c] # <<>>}

\* [(gain, i, c) for i, c in enumerate(root.children) if c.children]
SplitList(t, gain) ==
    LET ch == t.children[t.root]
        all == [i \in 1..Len(ch) |->
                   <<IF ch[i] \in DOMAIN gain THEN gain[ch[i]] ELSE 0, i - 1, ch[i]>>]
    IN SelectSeq(all, LAMBDA e : t.children[e[3]] # <<>>)

SortedCus(t, gain) == sorted(SplitList(t, gain))

\* split_cus[0][2]
SplitChoiceFirst(cus) == cus[1][3]

\* split_cus[-1][2]
SplitChoice(cus) == cus[Len(cus)][3]

\* the scores the tree may give
Gains == 0..MaxGain

(***************************************************************************)
(* The state after construction: the caller holds a tree, nothing called.  *)
(***************************************************************************)
NoSplit == [n |-> 0, best |-> None, tied |-> FALSE]

NoTrace == [copies |-> 0, inserted |-> 0, nsplits |-> 0, last |-> NoSplit]

Init ==
    /\ \E pv \in TreeShapes : heap = <<MkTree(pv)>>
    /\ tree0 = heap[callerRef]
    /\ op = "none"
    /\ pc = "idle"
    /\ tree = callerRef
    /\ instances = <<>>
    /\ minsplit = 1
    /\ maxsplit = 1
    /\ k = 3
    /\ mod = TRUE
    /\ temp_clusters = <<>>
    /\ range_next = 1
    /\ nth_split = 0
    /\ split_cus = <<>>
    /\ yielded = <<>>
    /\ clustering = <<>>
    /\ result = <<>>
    /\ error = "none"
    /\ finish = "none"
    /\ trace = NoTrace

InstanceLists == {[i \in 1..n |-> i] : n \in 0..MaxInst}

(***************************************************************************)
(* The calls.  Calling cluster_iter makes a generator whose body has not   *)
(* started; cluster and k_cluster run it from their own body.              *)
(***************************************************************************)
CallClusterIter ==
    /\ pc = "idle"
    /\ \E ms \in 0..MaxSplitArg, mx \in 0..MaxSplitArg, m \in BOOLEAN, xs \in InstanceLists :
          /\ op' = "cluster_iter"
          /\ minsplit' = ms /\ maxsplit' = mx /\ mod' = m /\ instances' = xs
    /\ pc' = "created"
    /\ UNCHANGED <<heap, tree0, tree, k, temp_clusters, range_next, nth_split,
                   yielded, clustering, result, error, finish, trace, split_cus>>

CallCluster ==
    /\ pc = "idle"
    /\ \E ms \in 0..MaxSplitArg, mx \in 0..MaxSplitArg, m \in BOOLEAN, xs \in InstanceLists :
          /\ op' = "cluster"
          /\ minsplit' = ms /\ maxsplit' = mx /\ mod' = m /\ instances' = xs
    /\ pc' = "gen_start"
    /\ UNCHANGED <<heap, tree0, tree, k, temp_clusters, range_next, nth_split,
                   yielded, clustering, result, error, finish, trace, split_cus>>

CallKCluster ==
    /\ pc = "idle"
    /\ \E kk \in 1..MaxK, m \in BOOLEAN, xs \in InstanceLists :
          /\ op' = "k_cluster"
          /\ k' = kk /\ mod' = m /\ instances' = xs
    /\ pc' = "k_start"
    /\ UNCHANGED <<heap, tree0, tree, minsplit, maxsplit, temp_clusters, range_next,
                   nth_split, yielded, clustering, result, error, finish, trace, split_cus>>

CallDepthLabels ==
    /\ pc = "idle"
    /\ \E m \in BOOLEAN, xs \in InstanceLists :
          /\ op' = "depth_labels"
          /\ mod' = m /\ instances' = xs
          /\ pc' = IF xs = <<>> THEN "dl_compute" ELSE "dl_insert"
    /\ UNCHANGED <<heap, tree0, tree, minsplit, maxsplit, k, temp_clusters, range_next,
                   nth_split, yielded, clustering, result, error, finish, trace, split_cus>>

(***************************************************************************)
(* k_cluster, lines 124-128: the check, the trivial clustering, then the   *)
(* generator with its default minsplit and maxsplit.                       *)
(***************************************************************************)
KStart ==
    /\ pc = "k_start"
    /\ IF CheckK(k) # "none"
       THEN /\ error' = CheckK(k)
            /\ pc' = "raised"
            /\ UNCHANGED <<clustering, minsplit, maxsplit>>
       ELSE /\ clustering' = [i \in 1..Len(instances) |->
                                 Label(heap[tree], heap[tree].root)]
            /\ minsplit' = 1
            /\ maxsplit' = DefaultMaxSplit
            /\ pc' = "gen_start"
            /\ error' = error
    /\ UNCHANGED <<heap, tree0, op, tree, instances, k, mod, temp_clusters, range_next,
                   nth_split, yielded, result, finish, trace, split_cus>>

(***************************************************************************)
(* The generator body of cluster_iter.                                     *)
(***************************************************************************)
\* lines 42-45
GenCheckArgs ==
    /\ pc = "gen_start"
    /\ error' = CheckSplitArgs(minsplit, maxsplit)
    /\ pc' = IF error' # "none" THEN "raised" ELSE "copy"
    /\ UNCHANGED <<heap, tree0, op, tree, instances, minsplit, maxsplit, k, mod,
                   temp_clusters, range_next, nth_split, yielded, clustering, result,
                   finish, trace, split_cus>>

\* line 47
GenCopy ==
    /\ pc = "copy"
    /\ LET cp == deepcopy(heap, tree)
       IN /\ heap' = cp.heap
          /\ tree' = cp.ref
    /\ trace' = [trace EXCEPT !.copies = @ + 1]
    /\ pc' = IF instances = <<>> THEN "loop" ELSE "insert"
    /\ UNCHANGED <<tree0, op, instances, minsplit, maxsplit, k, mod, temp_clusters,
                   range_next, nth_split, yielded, clustering, result, error, finish, split_cus>>

\* lines 49-52, one instance of the comprehension
GenInsert ==
    /\ pc = "insert"
    /\ \E choice \in InsertChoices(heap[tree], mod) :
          LET r == Insert(heap[tree], mod, choice)
          IN /\ heap' = [heap EXCEPT ![tree] = r.tree]
             /\ temp_clusters' = Append(temp_clusters, r.leaf)
    /\ trace' = [trace EXCEPT !.inserted = @ + 1]
    /\ pc' = IF Len(temp_clusters') = Len(instances) THEN "loop" ELSE "insert"
    /\ UNCHANGED <<tree0, op, tree, instances, minsplit, maxsplit, k, mod, range_next,
                   nth_split, yielded, clustering, result, error, finish, split_cus>>

\* what the consumer is left with when the generator returns
Returned ==
    CASE op = "cluster" -> result
      [] op = "k_cluster" -> clustering
      [] OTHER -> <<>>

\* nth_split >= minsplit - 1
ShouldYieldEarly(n, ms) == n >= ms - 1

\* line 56: if nth_split >= minsplit
ShouldYield(n, ms) == n >= ms

\* line 54: range(1, maxsplit+1) is used up
LoopEnd ==
    /\ pc = "loop"
    /\ range_next > maxsplit
    /\ pc' = "done"
    /\ finish' = "maxsplit"
    /\ result' = Returned
    /\ UNCHANGED <<heap, tree0, op, tree, instances, minsplit, maxsplit, k, mod,
                   temp_clusters, range_next, nth_split, yielded, clustering, error, trace, split_cus>>

\* lines 54-62: the next split count is at least minsplit, a clustering is yielded
LoopYield ==
    /\ pc = "loop"
    /\ range_next <= maxsplit
    /\ ShouldYield(range_next, minsplit)
    /\ nth_split' = range_next
    /\ range_next' = range_next + 1
    /\ yielded' = Append(yielded, [n |-> range_next,
                                   labels |-> Clusters(heap[tree], temp_clusters)])
    /\ pc' = "yielded"
    /\ UNCHANGED <<heap, tree0, op, tree, instances, minsplit, maxsplit, k, mod,
                   temp_clusters, clustering, result, error, finish, trace, split_cus>>

\* lines 54-56: below minsplit nothing is yielded
LoopSkip ==
    /\ pc = "loop"
    /\ range_next <= maxsplit
    /\ ~ShouldYield(range_next, minsplit)
    /\ nth_split' = range_next
    /\ range_next' = range_next + 1
    /\ pc' = "split"
    /\ UNCHANGED <<heap, tree0, op, tree, instances, minsplit, maxsplit, k, mod,
                   temp_clusters, yielded, clustering, result, error, finish, trace, split_cus>>

\* lines 64-66: the scores of the root's children that have children, sorted
GenScore ==
    /\ pc = "split"
    /\ \E gain \in [Splittable(heap[tree]) -> Gains] :
          split_cus' = SortedCus(heap[tree], gain)
    /\ pc' = "chosen"
    /\ UNCHANGED <<heap, tree0, op, tree, instances, minsplit, maxsplit, k, mod,
                   temp_clusters, range_next, nth_split, yielded, clustering, result,
                   error, finish, trace>>

\* lines 70-76 without the early exit: split_cus[-1] of an empty list
GenSplitNoExit ==
    /\ pc = "chosen"
    /\ IF split_cus = <<>>
       THEN /\ pc' = "raised"
            /\ error' = "IndexError"
            /\ UNCHANGED <<heap, nth_split, trace>>
       ELSE /\ heap' = [heap EXCEPT ![tree] = split(heap[tree], SplitChoice(split_cus))]
            /\ nth_split' = nth_split + 1
            /\ trace' = [trace EXCEPT !.nsplits = @ + 1]
            /\ pc' = "loop"
            /\ UNCHANGED error
    /\ split_cus' = <<>>
    /\ UNCHANGED <<tree0, op, tree, instances, minsplit, maxsplit, k, mod,
                   temp_clusters, range_next, yielded, clustering, finish, result>>

\* lines 70-76: the early exit, or the split of the last of split_cus
GenSplit ==
    /\ pc = "chosen"
    /\ IF split_cus = <<>>
       THEN /\ pc' = "done"
            /\ finish' = "exhausted"
            /\ result' = Returned
            /\ UNCHANGED <<heap, nth_split, trace>>
       ELSE /\ heap' = [heap EXCEPT ![tree] = split(heap[tree], SplitChoice(split_cus))]
            /\ nth_split' = nth_split + 1
            /\ trace' = [trace EXCEPT
                   !.nsplits = @ + 1,
                   !.last = [n |-> nth_split,
                             best |-> SplitChoice(split_cus),
                             tied |-> \E i \in 1..(Len(split_cus) - 1) :
                                         split_cus[i][1] = split_cus[Len(split_cus)][1]]]
            /\ pc' = "loop"
            /\ UNCHANGED <<finish, result>>
    /\ split_cus' = <<>>
    /\ UNCHANGED <<tree0, op, tree, instances, minsplit, maxsplit, k, mod,
                   temp_clusters, range_next, yielded, clustering, error>>

(***************************************************************************)
(* The consumers of the generator.                                         *)
(***************************************************************************)
LastYield == yielded[Len(yielded)].labels

\* the caller of cluster_iter asks for the first clustering: the body starts
IterStart ==
    /\ pc = "created"
    /\ op = "cluster_iter"
    /\ pc' = "gen_start"
    /\ UNCHANGED <<heap, tree0, op, tree, instances, minsplit, maxsplit, k, mod,
                   temp_clusters, range_next, nth_split, yielded, clustering, result,
                   error, finish, trace, split_cus>>

\* the caller of cluster_iter asks for the next clustering
IterResume ==
    /\ pc = "yielded"
    /\ op = "cluster_iter"
    /\ pc' = "split"
    /\ UNCHANGED <<heap, tree0, op, tree, instances, minsplit, maxsplit, k, mod,
                   temp_clusters, range_next, nth_split, yielded, clustering, result,
                   error, finish, trace, split_cus>>

\* the caller of cluster_iter stops consuming
IterAbandon ==
    /\ pc \in {"created", "yielded"}
    /\ op = "cluster_iter"
    /\ pc' = "done"
    /\ finish' = "abandoned"
    /\ UNCHANGED <<heap, tree0, op, tree, instances, minsplit, maxsplit, k, mod,
                   temp_clusters, range_next, nth_split, yielded, clustering, result,
                   error, trace, split_cus>>

\* line 98: cluster collects every clustering
ClusterCollect ==
    /\ pc = "yielded"
    /\ op = "cluster"
    /\ result' = Append(result, LastYield)
    /\ pc' = "split"
    /\ UNCHANGED <<heap, tree0, op, tree, instances, minsplit, maxsplit, k, mod,
                   temp_clusters, range_next, nth_split, yielded, clustering, error,
                   finish, trace, split_cus>>

\* len(set(c)) > k + 1
TooFineLate(c, kk) == distinct(c) > kk + 1

\* lines 129-130: is the clustering too fine for k
TooFine(c, kk) == distinct(c) > kk

\* lines 128-133: k_cluster keeps the clustering or breaks and returns
KConsume ==
    /\ pc = "yielded"
    /\ op = "k_cluster"
    /\ IF TooFine(LastYield, k)
       THEN /\ pc' = "done"
            /\ finish' = "break"
            /\ result' = clustering
            /\ UNCHANGED clustering
       ELSE /\ clustering' = LastYield
            /\ pc' = "split"
            /\ UNCHANGED <<finish, result>>
    /\ UNCHANGED <<heap, tree0, op, tree, instances, minsplit, maxsplit, k, mod,
                   temp_clusters, range_next, nth_split, yielded, error, trace, split_cus>>

(***************************************************************************)
(* depth_labels                                                            *)
(***************************************************************************)
\* ifit whatever mod says
DLInsertFit(t, m, choice) == ifit(t, choice)

\* lines 152-155: ifit if mod, else categorize, on the tree passed in
DLInsertOne(t, m, choice) == IF m THEN ifit(t, choice) ELSE categorize(t, choice)

DLInsert ==
    /\ pc = "dl_insert"
    /\ \E choice \in InsertChoices(heap[tree], mod) :
          LET r == DLInsertOne(heap[tree], mod, choice)
          IN /\ heap' = [heap EXCEPT ![tree] = r.tree]
             /\ temp_clusters' = Append(temp_clusters, r.leaf)
    /\ trace' = [trace EXCEPT !.inserted = @ + 1]
    /\ pc' = IF Len(temp_clusters') = Len(instances) THEN "dl_compute" ELSE "dl_insert"
    /\ UNCHANGED <<tree0, op, tree, instances, minsplit, maxsplit, k, mod, range_next,
                   nth_split, yielded, clustering, result, error, finish, split_cus>>

\* lines 160-168: the labels from the recorded node up to the root
RECURSIVE Chain(_, _)
Chain(t, c) ==
    IF t.parent[c] # None
    THEN <<Label(t, c)>> \o Chain(t, t.parent[c])
    ELSE <<Label(t, c)>>

\* lines 157-171
instance_labels(t, temp) == [i \in 1..Len(temp) |-> Chain(t, temp[i])]

RECURSIVE MaxLen(_)
MaxLen(ls) == IF ls = <<>> THEN 0 ELSE Max(Len(Head(ls)), MaxLen(Tail(ls)))

max_depth(t, temp) == MaxLen(instance_labels(t, temp))

\* lines 174-177: reversed, then the last label repeated up to max_depth
Padded(f, depth) ==
    LET r == Reverse(f)
    IN [d \in 1..Max(Len(r), depth) |-> IF d <= Len(r) THEN r[d] ELSE r[Len(r)]]

\* lines 179-186: one clustering per index of the first instance's list
final_labels(ils) ==
    [d \in 1..Len(ils[1]) |-> [i \in 1..Len(ils) |-> ils[i][d]]]

DLCompute ==
    /\ pc = "dl_compute"
    /\ LET t == heap[tree]
           depth == max_depth(t, temp_clusters)
           ils == [i \in 1..Len(temp_clusters) |->
                      Padded(instance_labels(t, temp_clusters)[i], depth)]
       IN IF ils = <<>>
          THEN \* instance_labels[0] of an empty list
               /\ error' = "IndexError"
               /\ pc' = "raised"
               /\ UNCHANGED <<result, finish>>
          ELSE /\ result' = final_labels(ils)
               /\ pc' = "done"
               /\ finish' = "returned"
               /\ UNCHANGED error
    /\ UNCHANGED <<heap, tree0, op, tree, instances, minsplit, maxsplit, k, mod,
                   temp_clusters, range_next, nth_split, yielded, clustering, trace, split_cus>>

Next ==
    \/ CallClusterIter \/ CallCluster \/ CallKCluster \/ CallDepthLabels
    \/ KStart
    \/ GenCheckArgs \/ GenCopy \/ GenInsert
    \/ LoopEnd \/ LoopYield \/ LoopSkip \/ GenScore \/ GenSplit
    \/ IterStart \/ IterResume \/ IterAbandon \/ ClusterCollect \/ KConsume
    \/ DLInsert \/ DLCompute

Spec == Init /\ [][Next]_vars

(***************************************************************************)
(* The claims.                                                             *)
(***************************************************************************)
IsRun == op \in {"cluster_iter", "cluster", "k_cluster"}

Labels(j) == yielded[j].labels

\* C1: a clustering run (cluster_iter consumed partially or to the end,
\* cluster, k_cluster) leaves the caller's tree as it was; the insertions and
\* the splits are made on the one deep copy taken at the start of the run.
C1_CallerTreeUntouched ==
    IsRun =>
        /\ heap[callerRef] = tree0
        /\ (trace.inserted > 0 \/ trace.nsplits > 0) =>
              (tree # callerRef /\ trace.copies = 1)

\* a partially consumed cluster_iter with mod that has inserted and split
C1_Witness ==
    /\ op = "cluster_iter" /\ mod
    /\ pc = "done" /\ finish = "abandoned"
    /\ trace.inserted >= 2 /\ trace.nsplits >= 1
    /\ heap[tree] # tree0
    /\ heap[callerRef] = tree0

\* the labeling in which every instance carries the root's label
Trivial == [i \in 1..Len(instances) |-> Label(tree0, tree0.root)]

\* the yielded clusterings with more than k distinct labels
Over == {j \in 1..Len(yielded) : distinct(Labels(j)) > k}

FirstOver == CHOOSE j \in Over : \A i \in Over : j <= i

\* C2: k_cluster (k >= 2) returns at most k distinct labels: the last
\* clustering before the first one with more than k labels, the last one
\* produced when none has more than k, and the trivial labeling when the
\* first clustering already has more than k.
C2_KClusterResult ==
    (op = "k_cluster" /\ pc = "done") =>
        /\ k >= 2
        /\ distinct(result) <= k
        /\ Len(yielded) >= 1
        /\ IF Over = {}
           THEN result = Labels(Len(yielded))
           ELSE /\ FirstOver = Len(yielded)
                /\ result = IF FirstOver = 1 THEN Trivial ELSE Labels(FirstOver - 1)

\* k_cluster stopped by a clustering with more than k labels, after others
C2_Witness ==
    /\ op = "k_cluster" /\ pc = "done" /\ finish = "break"
    /\ Len(yielded) >= 2
    /\ distinct(Labels(Len(yielded))) > k
    /\ distinct(result) = k
    /\ result # Trivial

\* C3: along the yielded sequence the number of distinct labels never goes
\* down, and instances that share a label later shared one before.
C3_LabelCountMonotone ==
    IsRun =>
        \A i, j \in 1..Len(yielded) :
            yielded[i].n < yielded[j].n =>
                /\ distinct(Labels(i)) <= distinct(Labels(j))
                /\ \A a, b \in 1..Len(instances) :
                      Labels(j)[a] = Labels(j)[b] => Labels(i)[a] = Labels(i)[b]

\* two clusterings of one run, the later with more labels
C3_Witness ==
    /\ op = "cluster_iter"
    /\ Len(yielded) >= 2
    /\ distinct(Labels(1)) < distinct(Labels(Len(yielded)))
    /\ distinct(Labels(1)) >= 2

\* C4: with 1 <= minsplit <= maxsplit, cluster_iter yields at most
\* maxsplit - minsplit + 1 clusterings, each of len(instances) labels, each at
\* a split count in minsplit..maxsplit, and cluster returns them in order.
C4_YieldBounds ==
    (op \in {"cluster_iter", "cluster"} /\ 1 <= minsplit /\ minsplit <= maxsplit) =>
        /\ Len(yielded) <= maxsplit - minsplit + 1
        /\ \A j \in 1..Len(yielded) :
              /\ Len(Labels(j)) = Len(instances)
              /\ yielded[j].n >= minsplit
              /\ yielded[j].n <= maxsplit
              /\ j > 1 => yielded[j].n = yielded[j - 1].n + 1
        /\ (op = "cluster" /\ pc = "done") =>
              result = [j \in 1..Len(yielded) |-> Labels(j)]

\* cluster returned the full maxsplit - minsplit + 1 clusterings, minsplit > 1
C4_Witness ==
    /\ op = "cluster" /\ pc = "done"
    /\ minsplit >= 2
    /\ Len(result) = maxsplit - minsplit + 1
    /\ Len(result) >= 2
    /\ Len(instances) >= 2

InvalidSplitArgs == minsplit < 1 \/ maxsplit < minsplit

\* control is with the caller: a generator object in hand, a clustering
\* received, the operation returned or raised
AtCaller == pc \in {"created", "yielded", "done", "raised"}

\* C5: cluster_iter and cluster with minsplit < 1 or maxsplit < minsplit, and
\* k_cluster with k < 2, raise ValueError from the call, before the copy, any
\* insertion and any split, and no clustering is produced.
C5_InvalidRejectedAtCall ==
    /\ (op \in {"cluster_iter", "cluster"} /\ InvalidSplitArgs /\ AtCaller) =>
          (pc = "raised" /\ error = "ValueError")
    /\ (op = "k_cluster" /\ k < 2 /\ AtCaller) =>
          (pc = "raised" /\ error = "ValueError")
    /\ (pc = "raised" /\ error = "ValueError") =>
          /\ trace = NoTrace
          /\ heap = <<tree0>>
          /\ temp_clusters = <<>>
          /\ yielded = <<>>
          /\ result = <<>>

\* the number of nodes from c up to the root
DepthOf(t, c) == Cardinality(AncSelf(t, c))

\* the ancestor-or-self of c that is d nodes down from the root
AncAt(t, c, d) == CHOOSE a \in AncSelf(t, c) : DepthOf(t, a) = d

\* the longest leaf-to-root chain over the recorded nodes
LongestChain(t, temp) ==
    IF temp = <<>> THEN 0
    ELSE LET ds == {DepthOf(t, temp[i]) : i \in 1..Len(temp)}
         IN CHOOSE m \in ds : \A d \in ds : d <= m

\* C6: depth_labels returns max_depth clusterings of len(instances) labels;
\* depth 0 is the root's label for every instance, and each instance's column
\* is its root-to-leaf chain, then its leaf label repeated.
C6_DepthLabelsShape ==
    (op = "depth_labels" /\ pc \in {"done", "raised"}) =>
        LET t == heap[tree]
            n == Len(instances)
        IN /\ error = "none"
           /\ Len(temp_clusters) = n
           /\ Len(result) = LongestChain(t, temp_clusters)
           /\ \A d \in 1..Len(result) :
                 /\ Len(result[d]) = n
                 /\ \A i \in 1..n :
                       LET leaf == temp_clusters[i]
                       IN result[d][i] =
                             IF d = 1 THEN Label(t, t.root)
                             ELSE IF d <= DepthOf(t, leaf)
                                  THEN Label(t, AncAt(t, leaf, d))
                                  ELSE Label(t, leaf)

\* C7: depth_labels leaves the caller's tree unchanged, for either value of mod.
C7_DepthLabelsReadOnly ==
    op = "depth_labels" => heap[callerRef] = tree0

\* C7 as the code has it: depth_labels works on the caller's tree itself and
\* makes no copy; with mod false the tree is unchanged.
C7_ReadOnlyWithoutMod ==
    op = "depth_labels" =>
        /\ tree = callerRef
        /\ heap = <<heap[callerRef]>>
        /\ trace.copies = 0
        /\ ~mod => heap[callerRef] = tree0

\* depth_labels returned for two or more instances with mod false
C7_Witness ==
    /\ op = "depth_labels" /\ ~mod
    /\ pc = "done"
    /\ Len(instances) >= 2
    /\ Len(result) >= 3
    /\ heap[callerRef] = tree0

\* C8: when no root child has children the generator stops, without raising
\* and without another clustering; every iteration that was passed made a
\* split; minsplit = maxsplit = 3 and exhaustion at split 2 yield nothing.
C8_SilentExhaustion ==
    IsRun =>
        /\ finish = "exhausted" =>
              /\ pc = "done"
              /\ error = "none"
              /\ Splittable(heap[tree]) = {}
              /\ nth_split <= maxsplit
              /\ \A j \in 1..Len(yielded) : yielded[j].n <= nth_split
              /\ (minsplit = 3 /\ maxsplit = 3 /\ nth_split = 2) => yielded = <<>>
        /\ pc = "loop" => trace.nsplits = range_next - 1
        /\ error # "none" => trace.copies = 0

\* minsplit = maxsplit = 3 on a tree exhausted at split 2
C8_Witness ==
    /\ op = "cluster_iter"
    /\ minsplit = 3 /\ maxsplit = 3
    /\ finish = "exhausted" /\ nth_split = 2
    /\ trace.nsplits = 1
    /\ yielded = <<>>
    /\ Len(instances) >= 1

\* C9: each label yielded is that of the recorded node's ancestor-or-self
\* that is a child of the copy's root as the tree stands, or the root's label
\* when the recorded node is the root; one label per instance, in order.
C9_LabelIsRootChild ==
    (IsRun /\ pc = "yielded") =>
        LET t == heap[tree]
            r == t.root
            labs == Labels(Len(yielded))
        IN /\ Len(labs) = Len(instances)
           /\ Len(temp_clusters) = Len(instances)
           /\ \A i \in 1..Len(labs) :
                 LET leaf == temp_clusters[i]
                 IN IF leaf = r
                    THEN labs[i] = Label(t, r)
                    ELSE \E a \in AncSelf(t, leaf) :
                            /\ t.parent[a] = r
                            /\ a \in Range(t.children[r])
                            /\ labs[i] = Label(t, a)

\* a clustering yielded after a split in which a deeper node collapses to its
\* ancestor under the root and another is labelled by a promoted node
C9_Witness ==
    /\ op = "cluster_iter" /\ pc = "yielded"
    /\ trace.nsplits >= 1
    /\ \E i \in 1..Len(instances) :
          Labels(Len(yielded))[i] # Label(heap[tree], temp_clusters[i])
    /\ \E i \in 1..Len(instances) :
          /\ Labels(Len(yielded))[i] = Label(heap[tree], temp_clusters[i])
          /\ Labels(1)[i] # Labels(Len(yielded))[i]

\* the gain recorded in split_cus for root child c
GainOf(c) == (CHOOSE e \in Range(split_cus) : e[3] = c)[1]

\* C10: the node split is the root child with children of greatest gain,
\* the one of largest index in root.children among equal gains; root children
\* without children are never split.
C10_SplitChoice ==
    [][(pc = "chosen" /\ split_cus # <<>>) =>
          LET t == heap[tree]
              ch == t.children[t.root]
              gone == {c \in Range(ch) : c \notin Range(heap'[tree].children[t.root])}
              idx(c) == CHOOSE i \in 1..Len(ch) : ch[i] = c
          IN /\ {e[3] : e \in Range(split_cus)} = Splittable(t)
             /\ \A e \in Range(split_cus) : ch[e[2] + 1] = e[3]
             /\ \E best \in Splittable(t) :
                   /\ gone = {best}
                   /\ trace'.last.best = best
                   /\ \A c \in Splittable(t) :
                         \/ GainOf(c) < GainOf(best)
                         \/ GainOf(c) = GainOf(best) /\ idx(c) <= idx(best)]_vars

\* a split chosen among root children of equal gain
C10_Witness ==
    /\ IsRun
    /\ trace.nsplits >= 1
    /\ trace.last.tied
    /\ trace.last.best \notin Range(heap[tree].children[heap[tree].root])

====
